---- MODULE Spec2Model ----
(***************************************************************************)
(* A model of the apc-mini driver layer:                                   *)
(*   - element_idx.rs : typed element addresses <-> raw MIDI note bytes    *)
(*   - input.rs       : SliderValue                                        *)
(*   - midi.rs        : InputMessage parsing, MidiConnection::new and the  *)
(*                      callback-to-channel bridge                         *)
(* Two specifications share the variables: SpecAddr exercises the pure     *)
(* address conversions, Spec the connection constructor and the bridge.    *)
(***************************************************************************)
EXTENDS Integers, Sequences, FiniteSets

VARIABLES
    res,          \* SpecAddr: the last conversion applied and its result
    pc,           \* position of MidiConnection::new
    err,          \* the error MidiConnection::new returned, "none" if none
    calls,        \* transport calls made so far by MidiConnection::new, in order
    inputLive,    \* the input connection exists: the transport invokes the callback
    rxAlive,      \* the Receiver end of the channel has not been dropped
    queue,        \* contents of the mpsc channel
    cbPc,         \* position of the callback on the transport's thread
    cbFrame,      \* the frame the callback was last invoked with
    cbMsg,        \* the InputMessage the callback parsed and is about to send
    cbStatus,     \* "ok", or "panicked" if the callback ever panicked
    sendResult,   \* what the last tx.send returned: "none" before any, "ok" or "err"
    parsed,       \* history: every message the callback parsed, in order
    received,     \* history: every message the consumer received, in order
    frames        \* number of frames the transport has delivered

vars == <<res, pc, err, calls, inputLive, rxAlive, queue, cbPc, cbFrame, cbMsg,
          cbStatus, sendResult, parsed, received, frames>>

bridgeVars == <<pc, err, calls, inputLive, rxAlive, queue, cbPc, cbFrame, cbMsg,
                cbStatus, sendResult, parsed, received, frames>>

(***************************************************************************)
(* Values.                                                                 *)
(***************************************************************************)

\* u8 has 256 values; arithmetic on it wraps modulo 256.
U8Mod == 256

U8 == 0 .. (U8Mod - 1)

WrapU8(x) == x % U8Mod

\* Option / Result: Some(v) and Ok(v) carry a value, None and Err(_) do not.
Some(v) == [ok |-> TRUE, val |-> v]

None == [ok |-> FALSE]

\* The base offsets the three impl_midi_range! instantiations are given.
SliderBase == 48

BottomButtonBase == 64

SideButtonBase == 82

(***************************************************************************)
(* element_idx.rs                                                          *)
(***************************************************************************)

GridButtonIdxNew(col, row) ==
    IF col < 8 /\ row < 8 THEN Some([col |-> col, row |-> row]) ELSE None

GridButtonIdxAll == {[col |-> c, row |-> r] : c \in 0..7, r \in 0..7}

\* A plausible slip: the row is not flipped.
GridButtonIdxTryFromNoFlip(note) ==
    IF note >= 64 THEN None
    ELSE GridButtonIdxNew(note % 8, note \div 8)

GridButtonIdxTryFrom(note) ==
    IF note >= 64 THEN None
    ELSE LET row == WrapU8(7 - (note \div 8))
             col == note % 8
         IN  GridButtonIdxNew(col, row)

\* A plausible slip: the row is not flipped when encoding.
GridButtonIdxIntoNoFlip(value) == WrapU8(8 * value.row + value.col)

GridButtonIdxInto(value) == WrapU8(WrapU8(8 * WrapU8(7 - value.row)) + value.col)

CornerButtonIdxAll == {"CornerButtonIdx"}

CornerButtonIdxTryFrom(note) ==
    IF note = 98 THEN Some("CornerButtonIdx") ELSE None

CornerButtonIdxInto(value) == 98

\* A plausible slip: an off-by-one bound that lets index 8 through.
MidiRangeNewInclusive(index) == IF index <= 8 THEN Some(index) ELSE None

\* impl_midi_range!: $name::new
MidiRangeNew(index) == IF index < 8 THEN Some(index) ELSE None

\* impl_midi_range!: $name::all
MidiRangeAll == 0..7

\* impl_midi_range!: TryFrom<MidiNote> for $name
MidiRangeTryFrom(base, note) ==
    IF note >= base THEN MidiRangeNew(WrapU8(note - base)) ELSE None

\* impl_midi_range!: From<$name> for MidiNote
MidiRangeInto(base, index) == WrapU8(index + base)

SliderIdxTryFrom(note) == MidiRangeTryFrom(SliderBase, note)

SliderIdxInto(index) == MidiRangeInto(SliderBase, index)

BottomButtonIdxTryFrom(note) == MidiRangeTryFrom(BottomButtonBase, note)

BottomButtonIdxInto(index) == MidiRangeInto(BottomButtonBase, index)

\* A plausible slip: a base that runs the side buttons into the bottom row.
SideButtonIdxTryFromLowBase(note) == MidiRangeTryFrom(70, note)

SideButtonIdxTryFrom(note) == MidiRangeTryFrom(SideButtonBase, note)

SideButtonIdxInto(index) == MidiRangeInto(SideButtonBase, index)

\* From<GridButtonIdx|SideButtonIdx|BottomButtonIdx|CornerButtonIdx> for ButtonIdx
ButtonIdxFrom(variant, value) == [variant |-> variant, idx |-> value]

\* Option::map(Into::into)
MapInto(variant, r) == IF r.ok THEN Some(ButtonIdxFrom(variant, r.val)) ELSE None

\* Option::or_else
OrElse(a, b) == IF a.ok THEN a ELSE b

ButtonIdxTryFrom(note) ==
    OrElse(OrElse(OrElse(MapInto("GridButtonIdx", GridButtonIdxTryFrom(note)),
                         MapInto("SideButtonIdx", SideButtonIdxTryFrom(note))),
                  MapInto("BottomButtonIdx", BottomButtonIdxTryFrom(note))),
           MapInto("CornerButtonIdx", CornerButtonIdxTryFrom(note)))

\* The kinds of address, and every valid address tagged with its kind.
ButtonKinds == {"GridButtonIdx", "SideButtonIdx", "BottomButtonIdx", "CornerButtonIdx"}

Kinds == ButtonKinds \cup {"SliderIdx"}

AllOf(kind) ==
    CASE kind = "GridButtonIdx"   -> GridButtonIdxAll
      [] kind = "CornerButtonIdx" -> CornerButtonIdxAll
      [] OTHER                    -> MidiRangeAll

TryFromOf(kind, note) ==
    CASE kind = "GridButtonIdx"   -> GridButtonIdxTryFrom(note)
      [] kind = "SideButtonIdx"   -> SideButtonIdxTryFrom(note)
      [] kind = "BottomButtonIdx" -> BottomButtonIdxTryFrom(note)
      [] kind = "CornerButtonIdx" -> CornerButtonIdxTryFrom(note)
      [] kind = "SliderIdx"       -> SliderIdxTryFrom(note)

IntoOf(kind, value) ==
    CASE kind = "GridButtonIdx"   -> GridButtonIdxInto(value)
      [] kind = "SideButtonIdx"   -> SideButtonIdxInto(value)
      [] kind = "BottomButtonIdx" -> BottomButtonIdxInto(value)
      [] kind = "CornerButtonIdx" -> CornerButtonIdxInto(value)
      [] kind = "SliderIdx"       -> SliderIdxInto(value)

(***************************************************************************)
(* input.rs                                                                *)
(***************************************************************************)

SliderValueNew(value) == IF value < 128 THEN Some(value) ELSE None

(***************************************************************************)
(* midi.rs                                                                 *)
(***************************************************************************)

NoteOn(note) == [type |-> "NoteOn", note |-> note]

NoteOff(note) == [type |-> "NoteOff", note |-> note]

ControlChange(note, vel) == [type |-> "ControlChange", note |-> note, vel |-> vel]

\* A plausible slip: only the first three bytes are looked at, the length is not.
InputMessageTryFromRawPrefix(msg) ==
    IF Len(msg) >= 3
    THEN CASE msg[1] = 144 -> Some(NoteOn(msg[2]))
           [] msg[1] = 128 -> Some(NoteOff(msg[2]))
           [] msg[1] = 176 -> Some(ControlChange(msg[2], msg[3]))
           [] OTHER        -> None
    ELSE None

\* InputMessage::try_from_raw: 0x90 = 144, 0x80 = 128, 0xB0 = 176
InputMessageTryFromRaw(msg) ==
    IF Len(msg) = 3
    THEN CASE msg[1] = 144 -> Some(NoteOn(msg[2]))
           [] msg[1] = 128 -> Some(NoteOff(msg[2]))
           [] msg[1] = 176 -> Some(ControlChange(msg[2], msg[3]))
           [] OTHER        -> None
    ELSE None

\* The most frames the transport delivers in one run.
MaxFrames == 3

\* The frames the transport delivers: recognized ones with addresses that decode
\* (note 0, controller 48), that do not (note 72, controller 72) and a value byte
\* of 200; frames of 0, 1, 2 and 4 bytes; frames with another status byte.
Frames ==
    { <<144, 0, 127>>, <<128, 0, 0>>, <<144, 72, 127>>, <<128, 98, 0>>,
      <<176, 48, 64>>, <<176, 48, 200>>, <<176, 72, 5>>,
      <<>>, <<144>>, <<144, 0>>, <<144, 0, 127, 0>>,
      <<160, 0, 0>>, <<145, 0, 127>> }

\* The calls MidiConnection::new makes on the transport, in program order.
CallOrder ==
    <<"input_init", "input_ports", "input_connect",
      "output_init", "output_ports", "output_connect">>

\* `?` on an error: the constructor returns Err(e). Its locals are dropped: the
\* input connection, if it was made, and the receiver.
ReturnErr(e) ==
    /\ pc' = "failed"
    /\ err' = e
    /\ inputLive' = FALSE
    /\ rxAlive' = FALSE

\* let (tx, rx) = mpsc::channel(); MidiInput::new("midi_input")?
InputInit(ok) ==
    /\ pc = "start"
    /\ calls' = Append(calls, "input_init")
    /\ IF ok
       THEN /\ pc' = "input_find"
            /\ rxAlive' = TRUE
            /\ UNCHANGED <<err, inputLive>>
       ELSE ReturnErr("MidirInitError")
    /\ UNCHANGED <<res, queue, cbPc, cbFrame, cbMsg, cbStatus, sendResult, parsed, received, frames>>

\* input.ports().iter().find(..).ok_or(NameNotFound)?
InputFind(found) ==
    /\ pc = "input_find"
    /\ calls' = Append(calls, "input_ports")
    /\ IF found
       THEN /\ pc' = "input_connect"
            /\ UNCHANGED <<err, inputLive, rxAlive>>
       ELSE ReturnErr("NameNotFound")
    /\ UNCHANGED <<res, queue, cbPc, cbFrame, cbMsg, cbStatus, sendResult, parsed, received, frames>>

\* input.connect(id, &name, callback, ())?
InputConnect(ok) ==
    /\ pc = "input_connect"
    /\ calls' = Append(calls, "input_connect")
    /\ IF ok
       THEN /\ pc' = "output_init"
            /\ inputLive' = TRUE
            /\ UNCHANGED <<err, rxAlive>>
       ELSE ReturnErr("MidirInputConnectError")
    /\ UNCHANGED <<res, queue, cbPc, cbFrame, cbMsg, cbStatus, sendResult, parsed, received, frames>>

\* MidiOutput::new("midi_output")?
OutputInit(ok) ==
    /\ pc = "output_init"
    /\ calls' = Append(calls, "output_init")
    /\ IF ok
       THEN /\ pc' = "output_find"
            /\ UNCHANGED <<err, inputLive, rxAlive>>
       ELSE ReturnErr("MidirInitError")
    /\ UNCHANGED <<res, queue, cbPc, cbFrame, cbMsg, cbStatus, sendResult, parsed, received, frames>>

\* A plausible slip: the connect call is made before the port's absence is reported.
OutputFindConnectFirst(found) ==
    /\ pc = "output_find"
    /\ IF found
       THEN /\ calls' = Append(calls, "output_ports")
            /\ pc' = "output_connect"
            /\ UNCHANGED <<err, inputLive, rxAlive>>
       ELSE /\ calls' = calls \o <<"output_ports", "output_connect">>
            /\ ReturnErr("NameNotFound")
    /\ UNCHANGED <<res, queue, cbPc, cbFrame, cbMsg, cbStatus, sendResult, parsed, received, frames>>

\* output.ports().iter().find(..).ok_or(NameNotFound)?
OutputFind(found) ==
    /\ pc = "output_find"
    /\ calls' = Append(calls, "output_ports")
    /\ IF found
       THEN /\ pc' = "output_connect"
            /\ UNCHANGED <<err, inputLive, rxAlive>>
       ELSE ReturnErr("NameNotFound")
    /\ UNCHANGED <<res, queue, cbPc, cbFrame, cbMsg, cbStatus, sendResult, parsed, received, frames>>

\* A plausible slip: the output side's connect failure carries the input side's tag.
OutputConnectInputTag(ok) ==
    /\ pc = "output_connect"
    /\ calls' = Append(calls, "output_connect")
    /\ IF ok
       THEN /\ pc' = "connected"
            /\ UNCHANGED <<err, inputLive, rxAlive>>
       ELSE ReturnErr("MidirInputConnectError")
    /\ UNCHANGED <<res, queue, cbPc, cbFrame, cbMsg, cbStatus, sendResult, parsed, received, frames>>

\* output.connect(id, &name)?; Ok(Self { input, output, rx })
OutputConnect(ok) ==
    /\ pc = "output_connect"
    /\ calls' = Append(calls, "output_connect")
    /\ IF ok
       THEN /\ pc' = "connected"
            /\ UNCHANGED <<err, inputLive, rxAlive>>
       ELSE ReturnErr("MidirOutputConnectError")
    /\ UNCHANGED <<res, queue, cbPc, cbFrame, cbMsg, cbStatus, sendResult, parsed, received, frames>>

\* The transport invokes the callback with a frame; the callback parses it and
\* returns at once when the frame is not a recognized message.
CallbackEnter(msg) ==
    /\ inputLive
    /\ cbPc = "idle"
    /\ frames < MaxFrames
    /\ frames' = frames + 1
    /\ cbFrame' = msg
    /\ cbMsg' = InputMessageTryFromRaw(msg)
    /\ cbPc' = IF cbMsg'.ok THEN "send" ELSE "idle"
    /\ parsed' = IF cbMsg'.ok THEN Append(parsed, cbMsg'.val) ELSE parsed
    /\ UNCHANGED <<res, pc, err, calls, inputLive, rxAlive, queue, cbStatus, sendResult, received>>

\* A plausible slip: the message is put at the head of the queue.
CallbackSendFront ==
    /\ cbPc = "send"
    /\ IF rxAlive
       THEN /\ queue' = <<cbMsg.val>> \o queue
            /\ sendResult' = "ok"
       ELSE /\ sendResult' = "err"
            /\ UNCHANGED queue
    /\ cbPc' = "idle"
    /\ UNCHANGED <<res, pc, err, calls, inputLive, rxAlive, cbFrame, cbMsg, cbStatus,
                   parsed, received, frames>>

\* A plausible slip: tx.send(msg).unwrap() panics once the receiver is gone.
CallbackSendUnwrap ==
    /\ cbPc = "send"
    /\ IF rxAlive
       THEN /\ queue' = Append(queue, cbMsg.val)
            /\ sendResult' = "ok"
            /\ UNCHANGED cbStatus
       ELSE /\ sendResult' = "err"
            /\ cbStatus' = "panicked"
            /\ UNCHANGED queue
    /\ cbPc' = "idle"
    /\ UNCHANGED <<res, pc, err, calls, inputLive, rxAlive, cbFrame, cbMsg,
                   parsed, received, frames>>

\* A change that would translate in the callback: a message whose address does
\* not decode, or whose value byte is no SliderValue, is dropped.
CallbackSendDecoded ==
    /\ cbPc = "send"
    /\ IF (IF cbMsg.val.type = "ControlChange"
           THEN SliderIdxTryFrom(cbMsg.val.note).ok /\ SliderValueNew(cbMsg.val.vel).ok
           ELSE ButtonIdxTryFrom(cbMsg.val.note).ok)
       THEN IF rxAlive
            THEN /\ queue' = Append(queue, cbMsg.val)
                 /\ sendResult' = "ok"
            ELSE /\ sendResult' = "err"
                 /\ UNCHANGED queue
       ELSE UNCHANGED <<queue, sendResult>>
    /\ cbPc' = "idle"
    /\ UNCHANGED <<res, pc, err, calls, inputLive, rxAlive, cbFrame, cbMsg, cbStatus,
                   parsed, received, frames>>

\* let _ = tx.send(msg); the channel is unbounded, send never blocks; it returns
\* Err when the receiver has been dropped, and the Err is discarded. The callback
\* runs on the transport's thread: dropping the input connection stops further
\* invocations, but the source does not say that it waits for one in progress,
\* so this step may also come after the receiver has been dropped.
CallbackSend ==
    /\ cbPc = "send"
    /\ IF rxAlive
       THEN /\ queue' = Append(queue, cbMsg.val)
            /\ sendResult' = "ok"
       ELSE /\ sendResult' = "err"
            /\ UNCHANGED queue
    /\ cbPc' = "idle"
    /\ UNCHANGED <<res, pc, err, calls, inputLive, rxAlive, cbFrame, cbMsg, cbStatus,
                   parsed, received, frames>>

\* The consumer takes the next message from the receiver.
Recv ==
    /\ pc = "connected"
    /\ rxAlive
    /\ queue # <<>>
    /\ received' = Append(received, Head(queue))
    /\ queue' = Tail(queue)
    /\ UNCHANGED <<res, pc, err, calls, inputLive, rxAlive, cbPc, cbFrame, cbMsg,
                   cbStatus, sendResult, parsed, frames>>

\* The MidiConnection is dropped: its fields go in declaration order, the input
\* connection first and the receiver last.
DropConnection ==
    /\ pc = "connected"
    /\ rxAlive
    /\ inputLive' = FALSE
    /\ rxAlive' = FALSE
    /\ UNCHANGED <<res, pc, err, calls, queue, cbPc, cbFrame, cbMsg, cbStatus, sendResult, parsed,
                   received, frames>>

(***************************************************************************)
(* SpecAddr: the conversions applied to every byte and every valid address *)
(***************************************************************************)

\* Every decoder applied to one raw byte.
Decode(note) ==
    /\ res' = [op |-> "try_from", note |-> note,
               GridButtonIdx   |-> GridButtonIdxTryFrom(note),
               SideButtonIdx   |-> SideButtonIdxTryFrom(note),
               BottomButtonIdx |-> BottomButtonIdxTryFrom(note),
               CornerButtonIdx |-> CornerButtonIdxTryFrom(note),
               SliderIdx       |-> SliderIdxTryFrom(note),
               ButtonIdx       |-> ButtonIdxTryFrom(note)]
    /\ UNCHANGED bridgeVars

\* A valid address encoded and the note decoded again by the same kind.
RoundTrip(kind, value) ==
    /\ res' = [op |-> "round_trip", kind |-> kind, addr |-> value,
               note |-> IntoOf(kind, value),
               out |-> TryFromOf(kind, IntoOf(kind, value))]
    /\ UNCHANGED bridgeVars

InitBridge ==
    /\ pc = "start"
    /\ err = "none"
    /\ calls = <<>>
    /\ inputLive = FALSE
    /\ rxAlive = FALSE
    /\ queue = <<>>
    /\ cbPc = "idle"
    /\ cbFrame = <<>>
    /\ cbMsg = None
    /\ cbStatus = "ok"
    /\ sendResult = "none"
    /\ parsed = <<>>
    /\ received = <<>>
    /\ frames = 0

Init ==
    /\ res = [op |-> "none"]
    /\ InitBridge

NextAddr ==
    \/ \E note \in U8 : Decode(note)
    \/ \E kind \in Kinds : \E value \in AllOf(kind) : RoundTrip(kind, value)

SpecAddr == Init /\ [][NextAddr]_vars

Next ==
    \/ \E ok \in BOOLEAN : InputInit(ok)
    \/ \E found \in BOOLEAN : InputFind(found)
    \/ \E ok \in BOOLEAN : InputConnect(ok)
    \/ \E ok \in BOOLEAN : OutputInit(ok)
    \/ \E found \in BOOLEAN : OutputFind(found)
    \/ \E ok \in BOOLEAN : OutputConnect(ok)
    \/ \E msg \in Frames : CallbackEnter(msg)
    \/ CallbackSend
    \/ Recv
    \/ DropConnection

Spec == Init /\ [][Next]_vars

(***************************************************************************)
(* Properties of the address mapping (checked under SpecAddr)              *)
(***************************************************************************)

\* C1: encoding a valid address of any kind and decoding the note again with the
\* same kind succeeds and gives back exactly that address.
C1_RoundTrip ==
    res.op = "round_trip" => res.out = Some(res.addr)

\* C1 happens: grid button (col 3, row 2) was encoded as 43 and decoded again.
C1_Witness ==
    /\ res.op = "round_trip"
    /\ res.kind = "GridButtonIdx"
    /\ res.addr = [col |-> 3, row |-> 2]
    /\ res.note = 43
    /\ res.out.ok

\* The raw notes that belong to no button.
GapBytes == (72..81) \cup (90..97) \cup (99..127)

\* C2: a byte of 0..127 decodes under at most one button kind; the combined
\* ButtonIdx decode fails exactly on the gap bytes and otherwise yields the
\* variant of the one kind that accepts the byte.
C2_Partition ==
    (res.op = "try_from" /\ res.note <= 127) =>
        /\ Cardinality({k \in ButtonKinds : res[k].ok}) <= 1
        /\ res.ButtonIdx.ok <=> res.note \notin GapBytes
        /\ res.ButtonIdx.ok =>
             \E k \in ButtonKinds :
                /\ res[k].ok
                /\ res.ButtonIdx.val = [variant |-> k, idx |-> res[k].val]

\* C2 happens: the gap byte 72 was decoded and no button kind took it.
C2_Witness ==
    /\ res.op = "try_from"
    /\ res.note = 72
    /\ ~res.ButtonIdx.ok
    /\ \A k \in ButtonKinds : ~res[k].ok

\* C3: each kind decodes exactly its reserved range, to the tabled coordinates,
\* and fails on every other byte.
C3_Table ==
    res.op = "try_from" =>
        LET b == res.note IN
        /\ res.GridButtonIdx =
             IF b \in 0..63 THEN Some([col |-> b % 8, row |-> 7 - (b \div 8)]) ELSE None
        /\ res.BottomButtonIdx = IF b \in 64..71 THEN Some(b - 64) ELSE None
        /\ res.SideButtonIdx = IF b \in 82..89 THEN Some(b - 82) ELSE None
        /\ res.CornerButtonIdx.ok <=> b = 98
        /\ res.SliderIdx = IF b \in 48..55 THEN Some(b - 48) ELSE None
        /\ b = 0 => res.GridButtonIdx = Some([col |-> 0, row |-> 7])
        /\ b = 7 => res.GridButtonIdx = Some([col |-> 7, row |-> 7])
        /\ b = 56 => res.GridButtonIdx = Some([col |-> 0, row |-> 0])
        /\ b = 63 => res.GridButtonIdx = Some([col |-> 7, row |-> 0])

\* C3 happens: byte 56 was decoded to the grid button (col 0, row 0).
C3_Witness ==
    /\ res.op = "try_from"
    /\ res.note = 56
    /\ res.GridButtonIdx = Some([col |-> 0, row |-> 0])
    /\ ~res.BottomButtonIdx.ok

\* C4 as stated: no byte of 0..127 is accepted by two of the five kinds, the
\* slider included.
C4_AllDisjoint ==
    (res.op = "try_from" /\ res.note <= 127) =>
        Cardinality({k \in Kinds : res[k].ok}) <= 1

\* C4 as amended: no byte is accepted by two button kinds; a byte the slider
\* accepts (48..55) is accepted by no bottom, side or corner button, and is
\* always accepted by the grid as well.
C4_ButtonsDisjointSliderInGrid ==
    (res.op = "try_from" /\ res.note <= 127) =>
        /\ Cardinality({k \in ButtonKinds : res[k].ok}) <= 1
        /\ res.SliderIdx.ok <=> res.note \in 48..55
        /\ res.SliderIdx.ok =>
             /\ res.GridButtonIdx.ok
             /\ ~res.BottomButtonIdx.ok
             /\ ~res.SideButtonIdx.ok
             /\ ~res.CornerButtonIdx.ok

\* C4 happens: byte 48 was decoded, as slider 0 and as a grid button.
C4_Witness ==
    /\ res.op = "try_from"
    /\ res.note = 48
    /\ res.SliderIdx = Some(0)
    /\ res.GridButtonIdx = Some([col |-> 0, row |-> 1])

(***************************************************************************)
(* Properties of the constructor and the bridge (checked under Spec)       *)
(***************************************************************************)

Called(c) == \E i \in 1..Len(calls) : calls[i] = c

IsPrefix(s, t) == Len(s) <= Len(t) /\ \A i \in 1..Len(s) : s[i] = t[i]

\* C5 as stated: when the constructor has failed with NameNotFound, no input
\* connect and no output connect call has been made.
C5_NoConnectBeforeNameNotFound ==
    err = "NameNotFound" => ~Called("input_connect") /\ ~Called("output_connect")

\* C5 as amended: NameNotFound is returned right after a port lookup and never
\* after an output connect call; when the input port is the missing one no
\* connect call has been made, and when the output port is the missing one the
\* input connection has been made before and is dropped on return.
C5_NameNotFoundBeforeOwnConnect ==
    err = "NameNotFound" =>
        /\ ~Called("output_connect")
        /\ calls[Len(calls)] \in {"input_ports", "output_ports"}
        /\ calls[Len(calls)] = "input_ports" => ~Called("input_connect")
        /\ calls[Len(calls)] = "output_ports" => Called("input_connect") /\ ~inputLive

\* C5 happens: the output port was missing, after the input side had connected.
C5_Witness ==
    /\ err = "NameNotFound"
    /\ pc = "failed"
    /\ calls = <<"input_init", "input_ports", "input_connect", "output_init", "output_ports">>

\* The messages of recognized frames, written out from the wire format.
Recognized(f) == Len(f) = 3 /\ f[1] \in {144, 128, 176}

ExpectedMsg(f) ==
    CASE f[1] = 144 -> [type |-> "NoteOn", note |-> f[2]]
      [] f[1] = 128 -> [type |-> "NoteOff", note |-> f[2]]
      [] f[1] = 176 -> [type |-> "ControlChange", note |-> f[2], vel |-> f[3]]

Decodes(m) ==
    IF m.type = "ControlChange"
    THEN SliderIdxTryFrom(m.note).ok /\ m.vel < 128
    ELSE ButtonIdxTryFrom(m.note).ok

\* C6 as stated: the queue only ever holds entries whose address decodes (and,
\* for a control change, whose value is below 128).
C6_QueueOnlyDecodable ==
    \A i \in 1..Len(queue) : Decodes(queue[i])

\* C6 as amended: every item in the queue is the parsed message of a recognized
\* frame; the callback's send puts the parsed message of its frame at the tail
\* of the queue whenever the receiver is alive, whether or not the address
\* decodes; an unrecognized frame leaves the queue unchanged.
C6_QueueHoldsParsedMessages ==
    /\ [](\A i \in 1..Len(queue) :
            \E f \in Frames : Recognized(f) /\ queue[i] = ExpectedMsg(f))
    /\ [][/\ (cbPc = "send" /\ cbPc' = "idle" /\ rxAlive) =>
               queue' = Append(queue, ExpectedMsg(cbFrame))
          /\ (frames' # frames /\ ~Recognized(cbFrame')) => queue' = queue]_vars

\* C6 happens: the queue holds NoteOn(72), a note that decodes to no button.
C6_Witness ==
    /\ Len(queue) >= 1
    /\ queue[1] = [type |-> "NoteOn", note |-> 72]
    /\ ~ButtonIdxTryFrom(72).ok

\* C7: while the receiver is alive, the messages received so far, followed by
\* those waiting in the queue, followed by the one the callback is about to
\* send, are exactly the messages parsed so far, in the order they were parsed.
C7_Fifo ==
    rxAlive =>
        parsed = received \o queue \o (IF cbPc = "send" THEN <<cbMsg.val>> ELSE <<>>)

\* C7 happens: two different messages were received while a third one waits.
C7_Witness ==
    /\ rxAlive
    /\ Len(received) = 2
    /\ received[1] # received[2]
    /\ Len(queue) = 1
    /\ queue[1] # received[2]

\* C8: a send attempted after the receiver was dropped returns Err, which is
\* discarded: the callback returns, nothing else changes and it never panics;
\* and a callback about to send can always take its step, whatever the queue
\* holds.
C8_SendNeverFailsOrBlocks ==
    /\ [](cbStatus = "ok")
    /\ [](cbPc = "send" => ENABLED CallbackSend)
    /\ [][(cbPc = "send" /\ cbPc' = "idle" /\ ~rxAlive) =>
             /\ sendResult' = "err"
             /\ UNCHANGED <<pc, err, calls, inputLive, rxAlive, queue, cbStatus,
                            parsed, received, frames>>]_vars

\* C8 happens: a send returned Err and the callback went back to idle unharmed.
C8_Witness ==
    /\ sendResult = "err"
    /\ ~rxAlive
    /\ cbPc = "idle"
    /\ cbStatus = "ok"

\* C9: a frame that is not 3 bytes long or does not start with 0x90, 0x80 or
\* 0xB0 parses to None and the callback returns leaving everything else as it
\* was; a 3-byte frame starting with one of them parses to the NoteOn, NoteOff
\* or ControlChange message of its bytes.
C9_ParseOrDiscard ==
    [][frames' # frames =>
         IF Recognized(cbFrame')
         THEN /\ cbMsg' = Some(ExpectedMsg(cbFrame'))
              /\ cbPc' = "send"
         ELSE /\ cbMsg' = None
              /\ cbPc' = "idle"
              /\ UNCHANGED <<queue, cbStatus, sendResult, parsed, received>>]_vars

\* C9 happens: a 2-byte frame was delivered and nothing was parsed or queued.
C9_Witness ==
    /\ frames > 0
    /\ cbFrame = <<144, 0>>
    /\ cbPc = "idle"
    /\ cbMsg = None
    /\ queue = <<>>
    /\ parsed = <<>>

\* The error each transport call fails with.
ErrOf(call) ==
    CASE call \in {"input_init", "output_init"}   -> "MidirInitError"
      [] call \in {"input_ports", "output_ports"} -> "NameNotFound"
      [] call = "input_connect"                   -> "MidirInputConnectError"
      [] call = "output_connect"                  -> "MidirOutputConnectError"

\* C10 as stated: both port lookups are complete before any connect call;
\* Connected needs all calls to have succeeded; a failure carries a typed error.
C10_LookupsBeforeConnects ==
    /\ (Called("input_connect") \/ Called("output_connect")) =>
           (Called("input_ports") /\ Called("output_ports"))
    /\ pc = "connected" => (calls = CallOrder /\ err = "none")
    /\ pc = "failed" => err # "none"

\* C10 as amended: the constructor makes its calls in the order input init,
\* input lookup, input connect, output init, output lookup, output connect (each
\* side's lookup before that side's connect, the input connect before the
\* output lookup); it is Connected exactly when all six were made and none
\* failed; a failure carries the error of the call that failed; a failed
\* constructor makes no further call and stays failed, and Connected stays
\* Connected.
C10_SequentialConstruction ==
    /\ [](/\ IsPrefix(calls, CallOrder)
          /\ pc = "connected" <=> (calls = CallOrder /\ err = "none")
          /\ pc = "failed" <=> err # "none"
          /\ pc = "failed" => err = ErrOf(calls[Len(calls)]))
    /\ [][(pc \in {"failed", "connected"}) => UNCHANGED <<pc, err, calls>>]_vars

\* C10 happens: the output connect call failed after everything before it succeeded.
C10_Witness ==
    /\ pc = "failed"
    /\ calls = CallOrder
    /\ err = "MidirOutputConnectError"

====
